---- MODULE Spec2Model ----
(***************************************************************************)
(* Model of the BigQuery MCP server (src/src/index.ts): the request        *)
(* handlers for tools/call (the read-only gate, the INFORMATION_SCHEMA     *)
(* qualifier, the warehouse query), resources/list and resources/read.     *)
(* Texts are sequences of one-character strings, so that the regular       *)
(* expressions, the URL formatting and the URL parsing are computed        *)
(* character by character as the code computes them.                       *)
(***************************************************************************)
EXTENDS Integers, Sequences, FiniteSets, TLC

VARIABLES
    config,        \* the ServerConfig built at startup
    serving,       \* the process is running and connected to the transport
    pc,            \* where the handler of the current request is: idle, at one
                   \* of its awaits, or done
    req,           \* the current request
    log,           \* the current request's steps in order: the gate and the
                   \* qualifier with their outcome, each call of the warehouse
                   \* client and what it resolved or rejected with
    resp,          \* what the handler returned or threw
    locals,        \* the local variables of the resources/list handler
    failedBefore   \* history: an earlier request ended with an error

vars == <<config, serving, pc, req, log, resp, locals, failedBefore>>

----------------------------------------------------------------------------
(* Characters and strings *)

LowerLetters == <<"a", "b", "c", "d", "e", "f", "g", "h", "i", "j", "k", "l", "m",
                  "n", "o", "p", "q", "r", "s", "t", "u", "v", "w", "x", "y", "z">>

UpperLetters == <<"A", "B", "C", "D", "E", "F", "G", "H", "I", "J", "K", "L", "M",
                  "N", "O", "P", "Q", "R", "S", "T", "U", "V", "W", "X", "Y", "Z">>

DigitChars == <<"0", "1", "2", "3", "4", "5", "6", "7", "8", "9">>

\* the character U+0060, which a string of this notation cannot hold
Backtick == "U+0060"

Range(s) == {s[i] : i \in 1..Len(s)}

LowerSet == Range(LowerLetters)

WordChars == LowerSet \cup Range(UpperLetters) \cup Range(DigitChars) \cup {"_"}

\* \w of a regular expression without the u flag: [A-Za-z0-9_]
IsWordChar(c) == c \in WordChars

\* \s of a regular expression (the white space the inputs use)
IsSpace(c) == c \in {" ", "\t", "\n"}

\* String.prototype.toUpperCase on one character; also the canonicalisation
\* of the i flag, which for these characters is the upper-case mapping
UpperOf == [c \in LowerSet |-> UpperLetters[CHOOSE i \in 1..26 : LowerLetters[i] = c]]

ToUpperChar(c) == IF c \in LowerSet THEN UpperOf[c] ELSE c

ToUpperCase(s) == [i \in 1..Len(s) |-> ToUpperChar(s[i])]

\* the literal lit matches s at position i, letters compared under the i flag
MatchLiteralCI(s, i, lit) ==
    /\ i >= 1
    /\ i + Len(lit) - 1 <= Len(s)
    /\ \A k \in 1..Len(lit) : ToUpperChar(s[i + k - 1]) = ToUpperChar(lit[k])

\* String.prototype.includes: lit occurs in s, characters compared exactly
Includes(s, lit) ==
    \E i \in 1..(Len(s) - Len(lit) + 1) :
        \A k \in 1..Len(lit) : s[i + k - 1] = lit[k]

\* the end of the greedy run \s+ that starts at i: the first position at or
\* after i whose character is not white space
RECURSIVE SpaceRunEnd(_, _)
SpaceRunEnd(s, i) ==
    IF i <= Len(s) /\ IsSpace(s[i]) THEN SpaceRunEnd(s, i + 1) ELSE i

\* the end of the greedy run \w+ that starts at i
RECURSIVE WordRunEnd(_, _)
WordRunEnd(s, i) ==
    IF i <= Len(s) /\ IsWordChar(s[i]) THEN WordRunEnd(s, i + 1) ELSE i

----------------------------------------------------------------------------
(* The read-only gate: forbiddenPattern *)

ForbiddenTokens ==
    << <<"I", "N", "S", "E", "R", "T">>,
       <<"U", "P", "D", "A", "T", "E">>,
       <<"D", "E", "L", "E", "T", "E">>,
       <<"C", "R", "E", "A", "T", "E">>,
       <<"D", "R", "O", "P">>,
       <<"A", "L", "T", "E", "R">>,
       <<"M", "E", "R", "G", "E">>,
       <<"T", "R", "U", "N", "C", "A", "T", "E">>,
       <<"G", "R", "A", "N", "T">>,
       <<"R", "E", "V", "O", "K", "E">>,
       <<"E", "X", "E", "C", "U", "T", "E">>,
       <<"B", "E", "G", "I", "N">>,
       <<"C", "O", "M", "M", "I", "T">>,
       <<"R", "O", "L", "L", "B", "A", "C", "K">> >>

\* the assertion \b at position i (between s[i-1] and s[i]): exactly one of
\* the two neighbours is a word character; outside the string counts as none
IsWordBoundary(s, i) ==
    LET a == i > 1 /\ IsWordChar(s[i - 1])
        b == i <= Len(s) /\ IsWordChar(s[i])
    IN  a # b

\* \b(INSERT|...|ROLLBACK)\b matches starting at position i
ForbiddenMatchAt(s, i) ==
    /\ IsWordBoundary(s, i)
    /\ \E k \in 1..Len(ForbiddenTokens) :
          /\ MatchLiteralCI(s, i, ForbiddenTokens[k])
          /\ IsWordBoundary(s, i + Len(ForbiddenTokens[k]))

\* the pattern without its two \b assertions: a token matches anywhere
ForbiddenPatternTestNoBoundary(s) ==
    \E i \in 1..Len(s) : \E k \in 1..Len(ForbiddenTokens) :
        MatchLiteralCI(s, i, ForbiddenTokens[k])

\* forbiddenPattern.test(sql)
ForbiddenPatternTest(s) ==
    \E i \in 1..Len(s) : ForbiddenMatchAt(s, i)

----------------------------------------------------------------------------
(* The qualifier: qualifyTablePath *)

InformationSchema ==
    <<"I", "N", "F", "O", "R", "M", "A", "T", "I", "O", "N", "_", "S", "C", "H", "E", "M", "A">>

InformationSchemaTables == InformationSchema \o <<".", "T", "A", "B", "L", "E", "S">>

FromKeyword == <<"F", "R", "O", "M">>

NoMatch == [matched |-> FALSE, end |-> 0, hasDataset |-> FALSE, dataset |-> <<>>]

\* /FROM\s+(?:(\w+)\.)?INFORMATION_SCHEMA\.TABLES/i tried at position i.
\* \s+ and \w+ are greedy; a shorter run is followed by a character of the
\* same class, which neither "." nor a word character (after \s+) nor "I"
\* can be, so backtracking into them never finds another match.  The
\* optional group is tried first, INFORMATION_SCHEMA.TABLES without it after.
UnqualifiedPatternAt(s, i) ==
    IF ~MatchLiteralCI(s, i, FromKeyword) THEN NoMatch
    ELSE LET j == i + Len(FromKeyword)
             k == SpaceRunEnd(s, j)
             w == WordRunEnd(s, k)
         IN  IF k = j THEN NoMatch
             ELSE IF /\ w > k
                     /\ w <= Len(s)
                     /\ s[w] = "."
                     /\ MatchLiteralCI(s, w + 1, InformationSchemaTables)
             THEN [matched |-> TRUE, end |-> w + 1 + Len(InformationSchemaTables),
                   hasDataset |-> TRUE, dataset |-> SubSeq(s, k, w - 1)]
             ELSE IF MatchLiteralCI(s, k, InformationSchemaTables)
             THEN [matched |-> TRUE, end |-> k + Len(InformationSchemaTables),
                   hasDataset |-> FALSE, dataset |-> <<>>]
             ELSE NoMatch

\* the replacer's return value for a match with a dataset
QualifiedReference(projectId, dataset) ==
    <<"F", "R", "O", "M", " ", Backtick>> \o projectId \o <<".">> \o dataset
        \o <<".">> \o InformationSchemaTables \o <<Backtick>>

\* RegExp exec from lastIndex i: the first position at or after i where the
\* pattern matches, 0 if there is none
NextMatch(s, i) ==
    LET ps == {p \in i..Len(s) : UnqualifiedPatternAt(s, p).matched}
    IN  IF ps = {} THEN 0 ELSE CHOOSE p \in ps : \A q \in ps : p <= q

\* String.prototype.replace with a g pattern and a replacer function: the
\* scan from position i, acc the text produced so far.  The text between two
\* matches is copied.  A match without a dataset makes the replacer throw,
\* and nothing is returned.
RECURSIVE ReplaceAll(_, _, _, _)
ReplaceAll(s, i, acc, projectId) ==
    LET p == NextMatch(s, i)
    IN  IF p = 0 THEN [threw |-> FALSE, value |-> acc \o SubSeq(s, i, Len(s))]
        ELSE LET m == UnqualifiedPatternAt(s, p)
             IN  IF m.hasDataset
                 THEN ReplaceAll(s, m.end,
                                 acc \o SubSeq(s, i, p - 1)
                                     \o QualifiedReference(projectId, m.dataset),
                                 projectId)
                 ELSE [threw |-> TRUE, value |-> <<>>]

\* a replacer that returns a match without a dataset as it is
RECURSIVE ReplaceLenient(_, _, _, _)
ReplaceLenient(s, i, acc, projectId) ==
    LET p == NextMatch(s, i)
    IN  IF p = 0 THEN [threw |-> FALSE, value |-> acc \o SubSeq(s, i, Len(s))]
        ELSE LET m == UnqualifiedPatternAt(s, p)
             IN  ReplaceLenient(s, m.end,
                     acc \o SubSeq(s, i, p - 1)
                         \o (IF m.hasDataset
                             THEN QualifiedReference(projectId, m.dataset)
                             ELSE SubSeq(s, p, m.end - 1)),
                     projectId)

qualifyTablePathLenient(sql, projectId) == ReplaceLenient(sql, 1, <<>>, projectId)

\* replace without the g flag: only the first match is rewritten
ReplaceFirst(s, projectId) ==
    LET p == NextMatch(s, 1)
    IN  IF p = 0 THEN [threw |-> FALSE, value |-> s]
        ELSE LET m == UnqualifiedPatternAt(s, p)
             IN  IF m.hasDataset
                 THEN [threw |-> FALSE,
                       value |-> SubSeq(s, 1, p - 1)
                                 \o QualifiedReference(projectId, m.dataset)
                                 \o SubSeq(s, m.end, Len(s))]
                 ELSE [threw |-> TRUE, value |-> <<>>]

qualifyTablePathFirstOnly(sql, projectId) == ReplaceFirst(sql, projectId)

qualifyTablePath(sql, projectId) == ReplaceAll(sql, 1, <<>>, projectId)

----------------------------------------------------------------------------
(* Values, errors and the warehouse client *)

Undefined == [t |-> "undefined"]

Str(s) == [t |-> "string", v |-> s]

Num(n) == [t |-> "number", v |-> n]

\* the operand of || counts as absent: undefined, the empty string, zero
IsFalsy(x) ==
    \/ x.t = "undefined"
    \/ x.t = "string" /\ x.v = <<>>
    \/ x.t = "number" /\ x.v = 0

\* Number.prototype.toString of a non-negative integer
RECURSIVE NumberToString(_)
NumberToString(n) ==
    IF n < 10 THEN <<DigitChars[n + 1]>>
    ELSE NumberToString(n \div 10) \o <<DigitChars[(n % 10) + 1]>>

\* .toString() of a string or a number
ValueToString(x) == IF x.t = "number" THEN NumberToString(x.v) ELSE x.v

DefaultMaximumBytesBilled == <<"1", "0", "0", "0", "0", "0", "0", "0", "0", "0">>

\* request.params.arguments?.maximumBytesBilled || "1000000000"
MaximumBytesBilledOf(arg) ==
    IF IsFalsy(arg) THEN Str(DefaultMaximumBytesBilled) ELSE arg

JsError(message) == [name |-> "Error", message |-> message]

\* a rejection whose message names a token
ReadOnlyErrorNamingDrop ==
    JsError(<<"F", "o", "r", "b", "i", "d", "d", "e", "n", ":", " ", "D", "R", "O", "P">>)

\* new Error('Only READ operations are allowed')
ReadOnlyError ==
    JsError(<<"O", "n", "l", "y", " ", "R", "E", "A", "D", " ", "o", "p", "e", "r", "a",
              "t", "i", "o", "n", "s", " ", "a", "r", "e", " ", "a", "l", "l", "o", "w",
              "e", "d">>)

\* new Error("Dataset must be specified when querying INFORMATION_SCHEMA ...")
DatasetRequiredError ==
    JsError(<<"D", "a", "t", "a", "s", "e", "t", " ", "m", "u", "s", "t", " ", "b", "e",
              " ", "s", "p", "e", "c", "i", "f", "i", "e", "d", " ", "w", "h", "e", "n",
              " ", "q", "u", "e", "r", "y", "i", "n", "g", " ", "I", "N", "F", "O", "R",
              "M", "A", "T", "I", "O", "N", "_", "S", "C", "H", "E", "M", "A", " ", "(",
              "e", ".", "g", ".", " ", "d", "a", "t", "a", "s", "e", "t", ".", "I", "N",
              "F", "O", "R", "M", "A", "T", "I", "O", "N", "_", "S", "C", "H", "E", "M",
              "A", ".", "T", "A", "B", "L", "E", "S", ")">>)

\* new Error(`Unknown tool: ${request.params.name}`)
UnknownToolError(name) ==
    JsError(<<"U", "n", "k", "n", "o", "w", "n", " ", "t", "o", "o", "l", ":", " ">> \o name)

\* new Error("Invalid resource URI")
InvalidResourceUriError ==
    JsError(<<"I", "n", "v", "a", "l", "i", "d", " ", "r", "e", "s", "o", "u", "r", "c",
              "e", " ", "U", "R", "I">>)

\* what the warehouse client rejects with (quota, access, not found, ...)
ProviderErrors ==
    { [name |-> "ApiError", message |-> <<"q", "u", "o", "t", "a">>],
      [name |-> "ApiError", message |-> <<"N", "o", "t", " ", "f", "o", "u", "n", "d">>] }

\* the rows a query resolves with
RowSets == { <<>>, << <<"r", "1">> >> }

----------------------------------------------------------------------------
(* State *)

Idle == "idle"

NoRequest == [method |-> "none"]

NoResponse == [status |-> "none"]

NoLocals == [datasets |-> <<>>, di |-> 0, tables |-> <<>>, ti |-> 0, resources |-> <<>>]

\* parseArgs and validateConfig have run: --project-id acme-data, the
\* default location, no key file
StartupConfig ==
    [projectId |-> <<"a", "c", "m", "e", "-", "d", "a", "t", "a">>,
     location |-> "US",
     keyFilename |-> Undefined]

Init ==
    /\ config = StartupConfig
    /\ serving = TRUE
    /\ pc = Idle
    /\ req = NoRequest
    /\ log = <<>>
    /\ resp = NoResponse
    /\ locals = NoLocals
    /\ failedBefore = FALSE

\* a handler returns result to the transport
ReturnToCaller(result) ==
    /\ resp' = [status |-> "ok", result |-> result]
    /\ pc' = "done"
    /\ UNCHANGED <<config, serving>>

\* process.exit(1) in place of the throw, as the initialization catch does
ThrowAndExit(error) ==
    /\ resp' = [status |-> "error", error |-> error]
    /\ pc' = "done"
    /\ serving' = FALSE
    /\ UNCHANGED config

\* a handler throws (or rethrows from its catch block): the request is
\* answered with the error and nothing else changes
ThrowToCaller(error) ==
    /\ resp' = [status |-> "error", error |-> error]
    /\ pc' = "done"
    /\ UNCHANGED <<config, serving>>

----------------------------------------------------------------------------
(* tools/call *)

MaxPieces == 3

\* the fragments SQL texts are put together from
SqlPieces ==
    { <<"D", "r", "o", "p">>,
      <<"c", "r", "e", "a", "t", "e", "d", "_", "b", "y">>,
      <<" ">>,
      <<"_">>,
      <<"F", "R", "O", "M", " ", "d", "s", ".", "I", "N", "F", "O", "R", "M", "A", "T",
        "I", "O", "N", "_", "S", "C", "H", "E", "M", "A", ".", "T", "A", "B", "L", "E", "S">>,
      <<"f", "r", "o", "m", " ", " ", "I", "N", "F", "O", "R", "M", "A", "T", "I", "O",
        "N", "_", "S", "C", "H", "E", "M", "A", ".", "t", "a", "b", "l", "e", "s">>,
      <<"F", "r", "o", "m", "\t">>,
      <<"b", ".", "i", "n", "f", "o", "r", "m", "a", "t", "i", "o", "n", "_", "s", "c",
        "h", "e", "m", "a", ".", "T", "A", "B", "L", "E", "S">> }

RECURSIVE Concat(_)
Concat(ss) == IF ss = <<>> THEN <<>> ELSE Head(ss) \o Concat(Tail(ss))

SqlTexts == { Concat(ps) : ps \in UNION { [1..n -> SqlPieces] : n \in 0..MaxPieces } }

QueryTool == <<"q", "u", "e", "r", "y">>

ToolNames == { QueryTool, <<"l", "o", "a", "d">> }

MaximumBytesBilledArgs ==
    { Undefined, Num(0), Num(25), Str(<<"0">>) }

\* bigquery.query({query, location, maximumBytesBilled}) is called and awaited
SubmitQuery(lg, query, maximumBytesBilled) ==
    /\ log' = Append(lg, <<"bigquery.query",
                           [query |-> query,
                            location |-> config.location,
                            maximumBytesBilled |-> ValueToString(maximumBytesBilled)]>>)
    /\ pc' = "awaitQuery"
    /\ UNCHANGED <<config, serving, resp>>

\* a try block whose catch submits the text as it was when the qualifier throws
QualifyAndSubmitAnyway(lg, sql, maximumBytesBilled) ==
    IF Includes(ToUpperCase(sql), InformationSchema)
    THEN LET q == qualifyTablePath(sql, config.projectId)
         IN  SubmitQuery(Append(lg, <<"qualify", ~q.threw>>),
                         IF q.threw THEN sql ELSE q.value, maximumBytesBilled)
    ELSE SubmitQuery(lg, sql, maximumBytesBilled)

\* the try block: the qualifier when the text mentions INFORMATION_SCHEMA,
\* then the query; what the qualifier throws is caught, logged and rethrown
QualifyAndSubmit(lg, sql, maximumBytesBilled) ==
    IF Includes(ToUpperCase(sql), InformationSchema)
    THEN LET q == qualifyTablePath(sql, config.projectId)
         IN  IF q.threw
             THEN /\ log' = Append(lg, <<"qualify", FALSE>>)
                  /\ ThrowToCaller(DatasetRequiredError)
             ELSE SubmitQuery(Append(lg, <<"qualify", TRUE>>), q.value,
                              maximumBytesBilled)
    ELSE SubmitQuery(lg, sql, maximumBytesBilled)

\* the handler of CallToolRequestSchema up to its first await
CallTool(name, sql, arg) ==
    /\ req' = [method |-> "tools/call", name |-> name, sql |-> sql,
               maximumBytesBilled |-> arg]
    /\ UNCHANGED <<locals, failedBefore>>
    /\ IF name = QueryTool
       THEN LET maximumBytesBilled == MaximumBytesBilledOf(arg)
            IN  IF ForbiddenPatternTest(sql)
                THEN /\ log' = << <<"gate", FALSE>> >>
                     /\ ThrowToCaller(ReadOnlyError)
                ELSE QualifyAndSubmit(<< <<"gate", TRUE>> >>, sql, maximumBytesBilled)
       ELSE /\ log' = <<>>
            /\ ThrowToCaller(UnknownToolError(name))

CallToolRequest ==
    /\ pc = Idle
    /\ serving
    /\ \E name \in ToolNames :
         IF name = QueryTool
         THEN \E sql \in SqlTexts, arg \in MaximumBytesBilledArgs : CallTool(name, sql, arg)
         ELSE CallTool(name, <<>>, Undefined)

\* bigquery.query resolves: the rows are returned
QueryResolves ==
    /\ pc = "awaitQuery"
    /\ \E rows \in RowSets :
         /\ log' = Append(log, <<"resolved", rows>>)
         /\ ReturnToCaller([content |-> <<[type |-> "text", text |-> <<"JSON", rows>>]>>,
                            isError |-> FALSE])
    /\ UNCHANGED <<req, locals, failedBefore>>

\* bigquery.query rejects: the catch block logs and rethrows
QueryRejects ==
    /\ pc = "awaitQuery"
    /\ \E e \in ProviderErrors :
         /\ log' = Append(log, <<"rejected", e>>)
         /\ ThrowToCaller(e)
    /\ UNCHANGED <<req, locals, failedBefore>>

\* the transport has sent the response; the server waits for the next
\* request.  Nothing of the finished request is kept.
NextRequest ==
    /\ pc = "done"
    /\ pc' = Idle
    /\ req' = NoRequest
    /\ log' = <<>>
    /\ resp' = NoResponse
    /\ locals' = NoLocals
    /\ UNCHANGED <<config, serving, failedBefore>>

\* the same step, the history variable failedBefore recording whether a
\* request has failed so far
NextRequestRecorded ==
    /\ pc = "done"
    /\ pc' = Idle
    /\ req' = NoRequest
    /\ log' = <<>>
    /\ resp' = NoResponse
    /\ locals' = NoLocals
    /\ failedBefore' = (failedBefore \/ resp.status = "error")
    /\ UNCHANGED <<config, serving>>

----------------------------------------------------------------------------
(* URLs: new URL(relative, base).href and new URL(uri).pathname *)

\* the character U+00E9 (e with acute accent)
EAcute == "U+00E9"

UrlScheme == <<"b", "i", "g", "q", "u", "e", "r", "y", ":", "/", "/">>

SCHEMA_PATH == <<"s", "c", "h", "e", "m", "a">>

\* the URL parser's path percent-encode set, UTF-8 bytes in upper-case hex
PercentEncodePathChar(c) ==
    CASE c = " "      -> <<"%", "2", "0">>
      [] c = "\""     -> <<"%", "2", "2">>
      [] c = "<"      -> <<"%", "3", "C">>
      [] c = ">"      -> <<"%", "3", "E">>
      [] c = Backtick -> <<"%", "6", "0">>
      [] c = "{"      -> <<"%", "7", "B">>
      [] c = "}"      -> <<"%", "7", "D">>
      [] c = EAcute   -> <<"%", "C", "3", "%", "A", "9">>
      [] OTHER        -> <<c>>

RECURSIVE PercentEncodePath(_)
PercentEncodePath(s) ==
    IF s = <<>> THEN <<>>
    ELSE PercentEncodePathChar(Head(s)) \o PercentEncodePath(Tail(s))

\* first position at or after i of a character of set cs, Len(s) + 1 if none
RECURSIVE IndexOfAny(_, _, _)
IndexOfAny(s, i, cs) ==
    IF i > Len(s) \/ s[i] \in cs THEN i ELSE IndexOfAny(s, i + 1, cs)

\* new URL(`bigquery://${config.projectId}`).href: a host and an empty path
ResourceBaseUrl(projectId) == UrlScheme \o projectId

\* new URL(relative, base).href for a relative path without "." and ".."
\* segments, against a base with a host and an empty path
UrlHref(relative, base) == base \o <<"/">> \o PercentEncodePath(relative)

\* new URL(uri).pathname for a bigquery:// uri: what follows the host up to
\* the query or the fragment, percent-encoded; empty when there is no path
UrlPathname(uri) ==
    LET hostStart == Len(UrlScheme) + 1
        pathStart == IndexOfAny(uri, hostStart, {"/", "?", "#"})
        pathEnd   == IndexOfAny(uri, pathStart, {"?", "#"})
    IN  PercentEncodePath(SubSeq(uri, pathStart, pathEnd - 1))

\* String.prototype.split("/"): scanning from i, cur the piece being read
RECURSIVE SplitFrom(_, _, _, _)
SplitFrom(s, i, cur, acc) ==
    IF i > Len(s) THEN Append(acc, cur)
    ELSE IF s[i] = "/" THEN SplitFrom(s, i + 1, <<>>, Append(acc, cur))
    ELSE SplitFrom(s, i + 1, Append(cur, s[i]), acc)

SplitSlash(s) == SplitFrom(s, 1, <<>>, <<>>)

\* Array.prototype.pop called n + 1 times: the value of the last call
PopNth(a, n) == IF Len(a) > n THEN Str(a[Len(a) - n]) ELSE Undefined

----------------------------------------------------------------------------
(* The warehouse: datasets, tables and table metadata *)

DatasetSales == <<"d", "s">>

DatasetHr == <<"h", "r">>

TableOrders == <<"t", "1">>

TableWithSpace == <<"a", " ", "b">>

TableCafe == <<"c", EAcute>>

ViewStaff == <<"v">>

\* getDatasets can resolve with any of these
DatasetListings ==
    { <<>>, <<DatasetSales>>, <<DatasetSales, DatasetHr>>, <<DatasetHr, DatasetSales>> }

\* getTables of a dataset can resolve with any of these
TableListings(d) ==
    IF d = DatasetSales
    THEN { <<TableOrders, TableWithSpace>>, <<TableWithSpace>>, <<>> }
    ELSE { <<ViewStaff, TableCafe>>, <<ViewStaff>> }

AllTables == { <<DatasetSales, TableOrders>>, <<DatasetSales, TableWithSpace>>,
               <<DatasetHr, ViewStaff>>, <<DatasetHr, TableCafe>> }

\* the metadata getMetadata resolves with for table t of dataset d
Metadata(d, t) ==
    [type |-> IF t = ViewStaff THEN "VIEW" ELSE "TABLE",
     schema |-> [fields |-> << [name |-> d, type |-> "STRING"],
                               [name |-> t, type |-> "INT64"] >>]]

----------------------------------------------------------------------------
(* resources/list *)

\* the descriptor the loop body pushes for table t of dataset d
ResourceOf(d, t, metadata, projectId) ==
    [uri |-> UrlHref(d \o <<"/">> \o t \o <<"/">> \o SCHEMA_PATH,
                     ResourceBaseUrl(projectId)),
     mimeType |-> "application/json",
     name |-> <<"\"">> \o d \o <<".">> \o t \o <<"\"", " ">>
              \o (IF metadata.type = "VIEW" THEN <<"v", "i", "e", "w">>
                                            ELSE <<"t", "a", "b", "l", "e">>)
              \o <<" ", "s", "c", "h", "e", "m", "a">>]

\* the catch block returns what was collected instead of rethrowing
ListingCaughtPartial(error) ==
    /\ resp' = [status |-> "ok", result |-> [resources |-> locals.resources]]
    /\ pc' = "done"
    /\ UNCHANGED <<config, serving>>

\* catch (error) { console.error(...); throw error; }
ListingCaught(error) == ThrowToCaller(error)

\* the outer loop at dataset number di with the resources collected so far:
\* the next getTables call, or the return after the last dataset
ListContinue(lg, datasets, di, resources) ==
    /\ locals' = [datasets |-> datasets, di |-> di, tables |-> <<>>, ti |-> 0,
                  resources |-> resources]
    /\ IF di > Len(datasets)
       THEN /\ log' = lg
            /\ ReturnToCaller([resources |-> resources])
       ELSE /\ log' = Append(lg, <<"getTables", datasets[di]>>)
            /\ pc' = "awaitTables"
            /\ UNCHANGED <<config, serving, resp>>

\* the inner loop at table number ti: the next getMetadata call, or the
\* outer loop's next round
ListContinueTables(lg, tables, ti, resources) ==
    IF ti > Len(tables)
    THEN ListContinue(lg, locals.datasets, locals.di + 1, resources)
    ELSE /\ locals' = [locals EXCEPT !.tables = tables, !.ti = ti,
                                     !.resources = resources]
         /\ log' = Append(lg, <<"getMetadata", Str(locals.datasets[locals.di]),
                                Str(tables[ti])>>)
         /\ pc' = "awaitMetadata"
         /\ UNCHANGED <<config, serving, resp>>

\* the handler of ListResourcesRequestSchema up to its first await
ListResourcesRequest ==
    /\ pc = Idle
    /\ serving
    /\ req' = [method |-> "resources/list"]
    /\ log' = << <<"getDatasets">> >>
    /\ pc' = "awaitDatasets"
    /\ UNCHANGED <<config, serving, resp, locals, failedBefore>>

GetDatasetsResolves ==
    /\ pc = "awaitDatasets"
    /\ \E datasets \in DatasetListings :
         ListContinue(Append(log, <<"resolved", datasets>>), datasets, 1, <<>>)
    /\ UNCHANGED <<req, failedBefore>>

GetTablesResolves ==
    /\ pc = "awaitTables"
    /\ \E tables \in TableListings(locals.datasets[locals.di]) :
         ListContinueTables(Append(log, <<"resolved", tables>>), tables, 1,
                            locals.resources)
    /\ UNCHANGED <<req, failedBefore>>

ListGetMetadataResolves ==
    /\ pc = "awaitMetadata"
    /\ LET d == locals.datasets[locals.di]
           t == locals.tables[locals.ti]
           metadata == Metadata(d, t)
       IN  ListContinueTables(Append(log, <<"resolved", metadata>>), locals.tables,
               locals.ti + 1,
               Append(locals.resources, ResourceOf(d, t, metadata, config.projectId)))
    /\ UNCHANGED <<req, failedBefore>>

\* getDatasets, getTables or getMetadata rejects inside the try block
ListFetchRejects ==
    /\ pc \in {"awaitDatasets", "awaitTables", "awaitMetadata"}
    /\ \E e \in ProviderErrors :
         /\ log' = Append(log, <<"rejected", e>>)
         /\ ListingCaught(e)
    /\ UNCHANGED <<req, locals, failedBefore>>

----------------------------------------------------------------------------
(* resources/read *)

MaxSegments == 3

\* the path segments request URIs are put together from
UriSegments ==
    { DatasetSales, TableOrders, TableWithSpace, SCHEMA_PATH,
      <<"m", "e", "t", "a", "d", "a", "t", "a">>, <<>> }

RECURSIVE JoinPath(_)
JoinPath(segs) ==
    IF segs = <<>> THEN <<>> ELSE <<"/">> \o Head(segs) \o JoinPath(Tail(segs))

\* the requests a client can send: a uri that resources/list gave for table t
\* of dataset d (origin <<d, t>>), or a uri put together from segments
ReadRequests ==
    { [method |-> "resources/read",
       uri |-> ResourceOf(dt[1], dt[2], Metadata(dt[1], dt[2]),
                          StartupConfig.projectId).uri,
       listed |-> TRUE, origin |-> dt, segments |-> <<>>] : dt \in AllTables }
    \cup
    { [method |-> "resources/read",
       uri |-> ResourceBaseUrl(StartupConfig.projectId) \o JoinPath(segs),
       listed |-> FALSE, origin |-> <<>>, segments |-> segs] :
         segs \in UNION { [1..n -> UriSegments] : n \in 0..MaxSegments } }

\* schema !== SCHEMA_PATH
SchemaMarkerWrong(schema) == schema # Str(SCHEMA_PATH)

\* the handler of ReadResourceRequestSchema up to its await.  A segment that
\* is missing is handed to the client as undefined (the non-null assertions
\* check nothing); the client's answer to that is a rejection.
ReadResource(r) ==
    LET pathComponents == SplitSlash(UrlPathname(r.uri))
        schema    == PopNth(pathComponents, 0)
        tableId   == PopNth(pathComponents, 1)
        datasetId == PopNth(pathComponents, 2)
    IN  /\ req' = r
        /\ UNCHANGED <<locals, failedBefore>>
        /\ IF SchemaMarkerWrong(schema)
           THEN /\ log' = <<>>
                /\ ThrowToCaller(InvalidResourceUriError)
           ELSE /\ log' = << <<"getMetadata", datasetId, tableId>> >>
                /\ pc' = "awaitReadMetadata"
                /\ UNCHANGED <<config, serving, resp>>

ReadResourceRequest ==
    /\ pc = Idle
    /\ serving
    /\ \E r \in ReadRequests : ReadResource(r)

\* the table the pending getMetadata call of resources/read names
ReadTarget == <<log[1][2], log[1][3]>>

ReadTargetExists ==
    \E dt \in AllTables : ReadTarget = <<Str(dt[1]), Str(dt[2])>>

\* table.getMetadata resolves: the field list is returned as text
ReadGetMetadataResolves ==
    /\ pc = "awaitReadMetadata"
    /\ ReadTargetExists
    /\ LET metadata == Metadata(ReadTarget[1].v, ReadTarget[2].v)
       IN  /\ log' = Append(log, <<"resolved", metadata>>)
           /\ ReturnToCaller([contents |-> << [uri |-> req.uri,
                                               mimeType |-> "application/json",
                                               text |-> <<"JSON", metadata.schema.fields>>] >>])
    /\ UNCHANGED <<req, locals, failedBefore>>

\* table.getMetadata rejects (no such table, or any other provider error):
\* the handler has no catch block, the rejection reaches the caller
ReadGetMetadataRejects ==
    /\ pc = "awaitReadMetadata"
    /\ \E e \in ProviderErrors :
         /\ log' = Append(log, <<"rejected", e>>)
         /\ ThrowToCaller(e)
    /\ UNCHANGED <<req, locals, failedBefore>>

----------------------------------------------------------------------------

Next ==
    \/ CallToolRequest
    \/ QueryResolves
    \/ QueryRejects
    \/ ListResourcesRequest
    \/ GetDatasetsResolves
    \/ GetTablesResolves
    \/ ListGetMetadataResolves
    \/ ListFetchRejects
    \/ ReadResourceRequest
    \/ ReadGetMetadataResolves
    \/ ReadGetMetadataRejects
    \/ NextRequest

Spec == Init /\ [][Next]_vars

\* the server with the history of failures recorded
NextWithHistory ==
    \/ CallToolRequest
    \/ QueryResolves
    \/ QueryRejects
    \/ ListResourcesRequest
    \/ GetDatasetsResolves
    \/ GetTablesResolves
    \/ ListGetMetadataResolves
    \/ ListFetchRejects
    \/ ReadResourceRequest
    \/ ReadGetMetadataResolves
    \/ ReadGetMetadataRejects
    \/ NextRequestRecorded

SpecWithHistory == Init /\ [][NextWithHistory]_vars

----------------------------------------------------------------------------
(* Vocabulary of the properties *)

IsQueryCall == req.method = "tools/call" /\ req.name = QueryTool

\* the positions of the log that hold a call of bigquery.query
QueryCalls == {k \in DOMAIN log : log[k][1] = "bigquery.query"}

\* the options of the (single) bigquery.query call
Submitted == log[CHOOSE k \in QueryCalls : TRUE][2]

\* a and b are the same character up to letter casing
LetterNumber ==
    [c \in Range(LowerLetters) \cup Range(UpperLetters) |->
        CHOOSE n \in 1..26 : c \in {LowerLetters[n], UpperLetters[n]}]

SameLetter(a, b) ==
    \/ a = b
    \/ /\ a \in DOMAIN LetterNumber
       /\ b \in DOMAIN LetterNumber
       /\ LetterNumber[a] = LetterNumber[b]

\* word occurs in s at position i in some letter casing
OccursAt(s, i, word) ==
    /\ i + Len(word) - 1 <= Len(s)
    /\ \A k \in 1..Len(word) : SameLetter(s[i + k - 1], word[k])

\* the occurrence of word at i is a whole word: on each side a string edge
\* or a character that cannot be part of an identifier
WholeWordAt(s, i, word) ==
    /\ i = 1 \/ s[i - 1] \notin WordChars
    /\ OccursAt(s, i, word)
    /\ i + Len(word) > Len(s) \/ s[i + Len(word)] \notin WordChars

HasWholeWordToken(s) ==
    \E i \in 1..Len(s) :
        /\ i = 1 \/ s[i - 1] \notin WordChars
        /\ \E k \in 1..Len(ForbiddenTokens) : WholeWordAt(s, i, ForbiddenTokens[k])

HasTokenOccurrence(s) ==
    \E i \in 1..Len(s) : \E k \in 1..Len(ForbiddenTokens) :
        OccursAt(s, i, ForbiddenTokens[k])

\* the gate rejected the request: the request ended with an error before
\* anything else ran
GateRejected ==
    /\ IsQueryCall
    /\ pc = "done"
    /\ resp.status = "error"
    /\ Len(log) = 1 /\ log[1][1] = "gate" /\ log[1][2] = FALSE

GatePassed ==
    /\ IsQueryCall
    /\ log[1][1] = "gate" /\ log[1][2] = TRUE

MentionsInformationSchema(s) == \E i \in 1..Len(s) : OccursAt(s, i, InformationSchema)

\* FROM, white space, INFORMATION_SCHEMA.TABLES with no dataset in between
HasUnqualifiedReference(s) ==
    \E i \in 1..Len(s) :
        /\ OccursAt(s, i, FromKeyword)
        /\ \E n \in 1..(Len(s) - i - 3) :
              /\ \A k \in 1..n : IsSpace(s[i + 3 + k])
              /\ OccursAt(s, i + 4 + n, InformationSchemaTables)

\* the positions where a FROM [dataset.]INFORMATION_SCHEMA.TABLES reference starts
References(s) == {i \in 1..Len(s) : UnqualifiedPatternAt(s, i).matched}

----------------------------------------------------------------------------
(* C1 *)

\* C1: a query whose SQL holds a whole-word occurrence of a forbidden token,
\* in any letter casing, is rejected by the gate; a query whose SQL holds
\* such tokens only inside larger identifiers passes the gate.
C1_GateRejectsWholeWordsOnly ==
    IsQueryCall =>
        IF HasWholeWordToken(req.sql)
        THEN GateRejected
        ELSE HasTokenOccurrence(req.sql) => GatePassed

\* a text with created_by next to a whole-word token not in upper case is rejected
C1_Witness ==
    /\ GateRejected
    /\ \E i \in 1..Len(req.sql) :
          /\ OccursAt(req.sql, i, ForbiddenTokens[4])
          /\ ~WholeWordAt(req.sql, i, ForbiddenTokens[4])
    /\ \E i \in 1..Len(req.sql) :
          /\ WholeWordAt(req.sql, i, ForbiddenTokens[5])
          /\ SubSeq(req.sql, i, i + 3) # ForbiddenTokens[5]

----------------------------------------------------------------------------
(* C2 *)

\* C2: within a query request bigquery.query is called at most once, only
\* after the gate passed on the request's SQL and, when the SQL mentions
\* INFORMATION_SCHEMA, after the qualifier succeeded; the qualifier runs only
\* after the gate passed; after a failed gate or qualifier there is no call.
C2_GateThenQualifierThenQuery ==
    IsQueryCall =>
        /\ Cardinality(QueryCalls) <= 1
        /\ (\E k \in DOMAIN log : log[k][1] \in {"qualify", "bigquery.query"})
              => ~HasWholeWordToken(req.sql)
        /\ \A k \in QueryCalls :
              /\ log[1][1] = "gate" /\ log[1][2] = TRUE /\ 1 < k
              /\ MentionsInformationSchema(req.sql) =>
                    /\ k = 3
                    /\ log[2][1] = "qualify" /\ log[2][2] = TRUE
        /\ \A q \in DOMAIN log :
              log[q][1] = "qualify" =>
                  /\ q = 2
                  /\ log[1][1] = "gate" /\ log[1][2] = TRUE
        /\ (\E f \in DOMAIN log : log[f][1] \in {"gate", "qualify"} /\ log[f][2] = FALSE)
              => (QueryCalls = {} /\ pc = "done" /\ resp.status = "error")

\* the qualifier failed after the gate passed, and the request ended
C2_Witness ==
    /\ IsQueryCall
    /\ pc = "done"
    /\ Len(log) = 2
    /\ log[2][1] = "qualify" /\ log[2][2] = FALSE

----------------------------------------------------------------------------
(* C3 *)

\* word occurs somewhere in s, in some letter casing
Names(s, word) == \E i \in 1..Len(s) : OccursAt(s, i, word)

C3_Message ==
    <<"O", "n", "l", "y", " ", "R", "E", "A", "D", " ", "o", "p", "e", "r", "a", "t", "i",
      "o", "n", "s", " ", "a", "r", "e", " ", "a", "l", "l", "o", "w", "e", "d">>

----------------------------------------------------------------------------
(* C4 *)

\* C4: a query whose SQL passed the gate and holds a FROM
\* INFORMATION_SCHEMA.TABLES reference without a dataset ends with the
\* qualifier's error, and no query, rewritten or not, reaches the warehouse.
C4_UnqualifiedReferenceFails ==
    (GatePassed /\ HasUnqualifiedReference(req.sql)) =>
        /\ pc = "done"
        /\ resp.status = "error"
        /\ resp.error = DatasetRequiredError
        /\ QueryCalls = {}

\* a reference with a dataset comes first, one without a dataset after it
C4_Witness ==
    /\ GatePassed
    /\ pc = "done"
    /\ HasUnqualifiedReference(req.sql)
    /\ \E i \in References(req.sql) :
          /\ UnqualifiedPatternAt(req.sql, i).hasDataset
          /\ \E j \in References(req.sql) :
                j > i /\ ~UnqualifiedPatternAt(req.sql, j).hasDataset

----------------------------------------------------------------------------
(* C5 *)

\* the text a reference with dataset d is to be replaced by
C5_Qualified(d) ==
    <<"F", "R", "O", "M", " ", Backtick>> \o StartupConfig.projectId \o <<".">> \o d
        \o <<".", "I", "N", "F", "O", "R", "M", "A", "T", "I", "O", "N", "_", "S", "C",
             "H", "E", "M", "A", ".", "T", "A", "B", "L", "E", "S", Backtick>>

\* by how much the references of set refs that end at or before position i
\* make the text longer
RECURSIVE C5_Shift(_, _, _)
C5_Shift(s, refs, i) ==
    IF refs = {} THEN 0
    ELSE LET r == CHOOSE x \in refs : TRUE
             m == UnqualifiedPatternAt(s, r)
         IN  (IF m.end <= i THEN Len(C5_Qualified(m.dataset)) - (m.end - r) ELSE 0)
             + C5_Shift(s, refs \ {r}, i)

\* out is s with every reference replaced and every other character kept
C5_Rewritten(s, out) ==
    LET refs == References(s)
    IN  /\ Len(out) = Len(s) + C5_Shift(s, refs, Len(s) + 1)
        /\ \A r \in refs :
              LET m == UnqualifiedPatternAt(s, r)
                  at == r + C5_Shift(s, refs, r)
              IN  /\ m.hasDataset
                  /\ SubSeq(out, at, at + Len(C5_Qualified(m.dataset)) - 1)
                        = C5_Qualified(m.dataset)
        /\ \A i \in 1..Len(s) :
              (\A r \in refs : i < r \/ i >= UnqualifiedPatternAt(s, r).end)
                  => out[i + C5_Shift(s, refs, i)] = s[i]

\* C5: the SQL submitted to the warehouse is the request's SQL with every
\* FROM dataset.INFORMATION_SCHEMA.TABLES reference replaced by the
\* backtick-quoted reference with the project in front and every other
\* character unchanged and in place; SQL that does not mention
\* INFORMATION_SCHEMA (in any letter casing) is submitted as it is.
C5_OnlyReferencesRewritten ==
    (IsQueryCall /\ QueryCalls # {}) =>
        IF MentionsInformationSchema(req.sql)
        THEN C5_Rewritten(req.sql, Submitted.query)
        ELSE Submitted.query = req.sql

\* two references are rewritten, with other text around them
C5_Witness ==
    /\ IsQueryCall
    /\ QueryCalls # {}
    /\ Cardinality(References(req.sql)) >= 2
    /\ 1 \notin References(req.sql)
    /\ Submitted.query # req.sql

----------------------------------------------------------------------------
(* C6 *)

\* C6 as claimed: reading a uri that resources/list gave for table t of
\* dataset d is never refused as an invalid uri, asks the warehouse for the
\* metadata of exactly dataset d, table t, and returns that table's fields.
C6_RoundTrip ==
    (req.method = "resources/read" /\ req.listed) =>
        /\ resp.status = "error" => resp.error # InvalidResourceUriError
        /\ pc \in {"awaitReadMetadata", "done"} =>
              /\ log # <<>>
              /\ log[1][1] = "getMetadata"
              /\ log[1][2] = Str(req.origin[1])
              /\ log[1][3] = Str(req.origin[2])
        /\ (pc = "done" /\ resp.status = "ok") =>
              resp.result.contents[1].text =
                  <<"JSON", Metadata(req.origin[1], req.origin[2]).schema.fields>>

----------------------------------------------------------------------------
(* C8 *)

\* C8 as claimed: a uri whose last path segment is not schema is refused with
\* the invalid-uri error and no metadata is fetched; metadata is fetched only
\* for a uri with the three trailing segments dataset, table, schema.  (A
\* fetch is counted only when the handler hands the client strings and the
\* table's is not empty, whatever the client does with a missing id.)
C8_OnlyThreeSegmentUrisResolved ==
    (req.method = "resources/read" /\ ~req.listed) =>
        LET segs == req.segments
            called == \E k \in DOMAIN log : log[k][1] = "getMetadata"
            fetched == \E k \in DOMAIN log :
                          /\ log[k][1] = "getMetadata"
                          /\ log[k][2].t = "string"
                          /\ log[k][3].t = "string"
                          /\ log[k][3].v # <<>>
        IN  /\ (segs = <<>> \/ segs[Len(segs)] # SCHEMA_PATH) =>
                  /\ pc = "done"
                  /\ resp.status = "error"
                  /\ resp.error = InvalidResourceUriError
                  /\ ~called
            /\ fetched => (Len(segs) >= 3 /\ segs[Len(segs)] = SCHEMA_PATH)

----------------------------------------------------------------------------
(* C10 *)

\* a number, or a non-empty string of digits
C10_NumericLooking(x) ==
    \/ x.t = "number"
    \/ x.t = "string" /\ x.v # <<>> /\ \A k \in 1..Len(x.v) : x.v[k] \in Range(DigitChars)

\* C10 as claimed: the maximumBytesBilled of the bigquery.query call is the
\* string form of the caller's value for every numeric-looking value, zero
\* included, and the default 1000000000 only when the caller gave none.
C10_CeilingForwardedVerbatim ==
    (IsQueryCall /\ QueryCalls # {}) =>
        LET arg == req.maximumBytesBilled
            ceiling == Submitted.maximumBytesBilled
        IN  /\ C10_NumericLooking(arg) =>
                  ceiling = (IF arg.t = "number" THEN NumberToString(arg.v) ELSE arg.v)
            /\ arg.t = "undefined" => ceiling = DefaultMaximumBytesBilled
            /\ ceiling = DefaultMaximumBytesBilled => arg.t = "undefined"

----------------------------------------------------------------------------
(* C7 *)

\* the descriptors of the tables that the getTables calls from position k of
\* the log on resolved with, in the order of the calls and of their answers
RECURSIVE C7_Expected(_)
C7_Expected(k) ==
    IF k >= Len(log) THEN <<>>
    ELSE IF log[k][1] = "getTables" /\ log[k + 1][1] = "resolved"
    THEN LET d == log[k][2]
             tables == log[k + 1][2]
         IN  [n \in 1..Len(tables) |->
                 ResourceOf(d, tables[n], Metadata(d, tables[n]), StartupConfig.projectId)]
             \o C7_Expected(k + 2)
    ELSE C7_Expected(k + 1)

\* the datasets of the getTables calls, in the order of the calls
C7_DatasetsAsked ==
    LET ks == {k \in DOMAIN log : log[k][1] = "getTables"}
        nth(n) == CHOOSE k \in ks : Cardinality({j \in ks : j < k}) = n - 1
    IN  [n \in 1..Cardinality(ks) |-> log[nth(n)][2]]

\* C7: a resources/list request during which a fetch was rejected ends with
\* exactly the error of that fetch and returns no resources, not even those
\* collected before; a request with no rejected fetch returns one resource
\* per table, datasets in the order getDatasets gave them and tables in the
\* order getTables gave them.
C7_ListingAllOrNothing ==
    req.method = "resources/list" =>
        /\ pc # "done" => resp = NoResponse
        /\ pc = "done" =>
              IF \E k \in DOMAIN log : log[k][1] = "rejected"
              THEN /\ log[Len(log)][1] = "rejected"
                   /\ resp = [status |-> "error", error |-> log[Len(log)][2]]
              ELSE /\ resp.status = "ok"
                   /\ C7_DatasetsAsked = log[2][2]
                   /\ resp.result = [resources |-> C7_Expected(1)]

\* a fetch is rejected after resources have been collected
C7_Witness ==
    /\ req.method = "resources/list"
    /\ pc = "done"
    /\ log[Len(log)][1] = "rejected"
    /\ Len(locals.resources) >= 2

----------------------------------------------------------------------------
(* C9 *)

\* C9: once a request has failed, the server is still serving with the
\* configuration it started with; when it waits for a request nothing of
\* the earlier requests is left and each kind of request is accepted, so a
\* later request runs from the state it would have run from without the
\* failure; a rejected warehouse call is the last call of its request and
\* its error is the request's answer (no retry).
C9_FailuresLeaveServerUnchanged ==
    /\ failedBefore =>
          /\ serving
          /\ config = StartupConfig
          /\ pc = Idle =>
                /\ <<req, log, resp, locals>> = <<NoRequest, <<>>, NoResponse, NoLocals>>
                /\ ENABLED CallToolRequest
                /\ ENABLED ListResourcesRequest
                /\ ENABLED ReadResourceRequest
    /\ \A k \in DOMAIN log :
          log[k][1] = "rejected" =>
              /\ k = Len(log)
              /\ pc = "done"
              /\ resp = [status |-> "error", error |-> log[k][2]]

\* after a failed request, a query has been answered with rows
C9_Witness ==
    /\ failedBefore
    /\ IsQueryCall
    /\ pc = "done"
    /\ resp.status = "ok"

====
